---- MODULE Spec2Model ----
(***************************************************************************)
(* Model of the correlation core of weather_vs_stock                       *)
(* (backend/app/utils/correlation.py).                                     *)
(*                                                                         *)
(* Numbers.  Observation values are integers.  A float the core computes   *)
(* (coefficient, p-value, interval bound) is a record [nan, v]: nan says   *)
(* the float is not-a-number, otherwise v is the value in units of         *)
(* 1/Scale.                                                                *)
(*                                                                         *)
(* Outcomes.  A call either returns or raises:                             *)
(*   [raised |-> FALSE, value |-> ...]  /  [raised |-> TRUE, error |-> e]. *)
(*                                                                         *)
(* Specifications.  The core functions are pure, so a behaviour is one     *)
(* call: Init draws the arguments, an action applies one function and      *)
(* records what it returned or raised.                                     *)
(*   Spec          align, analyze, buildMatrix, detectEvents on two lists  *)
(*   SpecStrength  the strength classifier on a coefficient                *)
(*   SpecPair      the pair correlator on two sequences                    *)
(*   SpecInterval  the confidence-interval estimator on (r, n, confidence) *)
(*   SpecEvents    detectEvents on weather lists of more than ten events   *)
(*   SpecExtremes  detectEvents on observations at the thresholds          *)
(*   SpecService   CorrelationService.analyze_correlation on two lists     *)
(*   SpecRoute     the GET correlation route, statement by statement       *)
(*   SpecConcurrent  two invocations of the core on the same lists         *)
(* The callers of the core (services, routes) are not modelled: the lists  *)
(* are arbitrary, empty, unsorted and with repeated dates included, next   *)
(* to the daily series the services produce.                               *)
(*                                                                         *)
(* Libraries.  pandas and scipy are modelled by what the calls do:         *)
(* pd.DataFrame([]) has no columns, pd.merge raises KeyError for a missing *)
(* key column, scipy.stats.pearsonr (>= 1.3) warns and returns (nan, nan)  *)
(* for a constant input and (+-1, 1.0) for two points, numpy float         *)
(* arithmetic gives inf or nan where Python float arithmetic raises.       *)
(***************************************************************************)
EXTENDS Integers, Sequences, FiniteSets, TLC

\* ------------------------------------------------------------------ bounds
MaxDay == 2
MaxLen == 2
MaxPairLen == 3
MaxVal == 4
MaxSeries == 3
MaxSample == 30
MaxExtra == 1
\* Resolution of the modelled floats: a float is a multiple of 1/Scale.
Scale == 100

\* ----------------------------------------------------------- float values
Float(v) == [nan |-> FALSE, v |-> v]
NaN == [nan |-> TRUE, v |-> 0]

Abs(i) == IF i < 0 THEN -i ELSE i

Returned(v) == [raised |-> FALSE, value |-> v]
Raised(e) == [raised |-> TRUE, error |-> e]

KeyError == "KeyError: 'date'"
NoOverlappingData == "ValueError: No overlapping data found for correlation analysis"

\* ------------------------------------------------------------ observations
Days == 1..MaxDay
WeatherHours == {0, 12}
StockHours == {16}

\* datetime.date(): the calendar day of a datetime, time of day dropped
DateOf(dt) == dt.day

\* WeatherData(date, city, temperature_avg, precipitation, humidity,
\* wind_speed, pressure); the fields the core never reads are left out.
\* The observation of day d at hour h: the values are small integers near
\* the thresholds of the extreme conditions, humidity moves only at noon of
\* odd days (so samples with a constant column are frequent), and the
\* co-moments of any two columns fit TLC's 32-bit integers.
WeatherData(d, h) ==
    [date |-> [day |-> d, hour |-> h],
     city |-> "NYC",
     temperature_avg |-> 33 + d + (h \div 12),
     precipitation |-> 49 + 2 * (h \div 12),
     humidity |-> 60 + (h \div 12) * (d % 2),
     wind_speed |-> 23 - 2 * d,
     pressure |-> 1000 + d * d]

\* StockData(date, symbol, close_price, percentage_change, volume)
StockData(d, h) ==
    [date |-> [day |-> d, hour |-> h],
     symbol |-> "AAPL",
     close_price |-> 100 + 2 * d,
     percentage_change |-> 2 * d - 3,
     volume |-> 1000 + (d % 2)]

WeatherObs == {WeatherData(d, h) : d \in Days, h \in WeatherHours}
StockObs == {StockData(d, h) : d \in Days, h \in StockHours}

SeqsUpTo(S, n) == UNION {[1..k -> S] : k \in 0..n}

\* ---------------------------------------------------------------- helpers
RECURSIVE Flatten(_)
Flatten(ss) == IF ss = <<>> THEN <<>> ELSE Head(ss) \o Flatten(Tail(ss))

Range(s) == {s[i] : i \in 1..Len(s)}

Min(a, b) == IF a <= b THEN a ELSE b
Max(a, b) == IF a >= b THEN a ELSE b

RECURSIVE SumSeq(_)
SumSeq(s) == IF s = <<>> THEN 0 ELSE Head(s) + SumSeq(Tail(s))

\* The largest k in lo..hi with k * k * d <= m (lo satisfies it).
RECURSIVE RootSearch(_, _, _, _)
RootSearch(m, d, lo, hi) ==
    IF lo >= hi THEN lo
    ELSE LET mid == (lo + hi + 1) \div 2
         IN  IF mid * mid * d <= m THEN RootSearch(m, d, mid, hi)
                                   ELSE RootSearch(m, d, lo, mid - 1)

\* floor(sqrt(m)) for 0 <= m < 2^31
ISqrt(m) == RootSearch(m, 1, 0, Min(m, 46340))

\* ------------------------------------------------------------- DataFrames
\* A DataFrame is its column names and its rows (records over the columns).
\* pd.DataFrame([]) has no columns and no rows.
WeatherColumns == <<"date", "temperature_avg", "precipitation", "humidity", "wind_speed", "pressure">>
StockColumns == <<"date", "close_price", "percentage_change", "volume">>

EmptyFrame == [columns |-> <<>>, rows |-> <<>>]

\* DataFrame.empty
IsEmpty(df) == df.columns = <<>> \/ df.rows = <<>>

\* df[[c1, c2, ...]]
Project(df, cols) ==
    [columns |-> cols,
     rows |-> [i \in 1..Len(df.rows) |-> [c \in Range(cols) |-> df.rows[i][c]]]]

\* df[c].tolist()
Column(df, c) == [i \in 1..Len(df.rows) |-> df.rows[i][c]]

weather_df(weather_data) ==
    IF weather_data = <<>> THEN EmptyFrame
    ELSE [columns |-> WeatherColumns,
          rows |-> [i \in 1..Len(weather_data) |->
                      [date |-> DateOf(weather_data[i].date),
                       temperature_avg |-> weather_data[i].temperature_avg,
                       precipitation |-> weather_data[i].precipitation,
                       humidity |-> weather_data[i].humidity,
                       wind_speed |-> weather_data[i].wind_speed,
                       pressure |-> weather_data[i].pressure]]]

stock_df(stock_data) ==
    IF stock_data = <<>> THEN EmptyFrame
    ELSE [columns |-> StockColumns,
          rows |-> [i \in 1..Len(stock_data) |->
                      [date |-> DateOf(stock_data[i].date),
                       close_price |-> stock_data[i].close_price,
                       percentage_change |-> stock_data[i].percentage_change,
                       volume |-> stock_data[i].volume]]]

\* A row with every column missing.
MissingRow == [c \in Range(WeatherColumns) \cup Range(StockColumns) |-> 0]

\* MatchesOf as a left join: a left row without a match is kept, its right
\* columns missing.
MatchesOfLeftJoin(l, right) ==
    LET hit == SelectSeq(right.rows, LAMBDA r : r.date = l.date)
    IN  IF hit = <<>> THEN <<l @@ MissingRow>>
        ELSE [k \in 1..Len(hit) |-> l @@ hit[k]]

\* The rows of `right` that carry the key of left row l, in right order,
\* each joined to l.
MatchesOf(l, right) ==
    LET hit == SelectSeq(right.rows, LAMBDA r : r.date = l.date)
    IN  [k \in 1..Len(hit) |-> l @@ hit[k]]

\* Inner join in the order of the left rows (pandas >= 2.2, and the
\* documented behaviour of how='inner').
JoinLeftOrder(left, right) ==
    Flatten([i \in 1..Len(left.rows) |-> MatchesOf(left.rows[i], right)])

\* Inner join grouped by key, keys in the order of their first appearance
\* on the left (pandas < 2.2).  The two orders differ only when a key is
\* repeated on the left.
JoinKeyOrder(left, right) ==
    LET first(i) == \A j \in 1..(i - 1) : left.rows[j].date # left.rows[i].date
        group(i) == SelectSeq(left.rows, LAMBDA l : l.date = left.rows[i].date)
        of(i) == IF first(i)
                 THEN Flatten([k \in 1..Len(group(i)) |-> MatchesOf(group(i)[k], right)])
                 ELSE <<>>
    IN  Flatten([i \in 1..Len(left.rows) |-> of(i)])

\* Column names of the joined frame: the left ones, then the right ones
\* without the key.
JoinColumns(left, right) ==
    left.columns \o SelectSeq(right.columns, LAMBDA c : c # "date")

\* pd.merge(left, right, on='date', how='inner')
merge(left, right, left_order) ==
    IF "date" \notin Range(left.columns) \/ "date" \notin Range(right.columns)
    THEN Raised(KeyError)
    ELSE Returned([columns |-> JoinColumns(left, right),
                   rows |-> IF left_order THEN JoinLeftOrder(left, right)
                                          ELSE JoinKeyOrder(left, right)])

align_weather_stock_data(weather_data, stock_data, left_order) ==
    LET merged_df == merge(weather_df(weather_data), stock_df(stock_data), left_order)
    IN  IF merged_df.raised THEN merged_df
        ELSE IF IsEmpty(merged_df.value)
        THEN Returned([weather_aligned |-> EmptyFrame, stock_aligned |-> EmptyFrame])
        ELSE Returned([weather_aligned |-> Project(merged_df.value, WeatherColumns),
                       stock_aligned |-> Project(merged_df.value, StockColumns)])

\* ------------------------------------------------------------- statistics
\* The strength thresholds 0.3 and 0.7, in tenths.
WeakBelow == 3
ModerateBelow == 7

\* calculate_correlation_strength with the boundaries on the wrong side.
calculate_correlation_strength_closed(correlation_coefficient) ==
    LET abs_corr == Abs(correlation_coefficient.v)
        nan == correlation_coefficient.nan
    IN  IF ~nan /\ 10 * abs_corr <= WeakBelow * Scale THEN "weak"
        ELSE IF ~nan /\ 10 * abs_corr <= ModerateBelow * Scale THEN "moderate"
        ELSE "strong"

\* abs(nan) < t is False for every t, so a nan coefficient falls through
\* to the last branch.
calculate_correlation_strength(correlation_coefficient) ==
    LET abs_corr == Abs(correlation_coefficient.v)
        nan == correlation_coefficient.nan
    IN  IF ~nan /\ 10 * abs_corr < WeakBelow * Scale THEN "weak"
        ELSE IF ~nan /\ 10 * abs_corr < ModerateBelow * Scale THEN "moderate"
        ELSE "strong"

\* n * sum(x*y) - sum(x) * sum(y): n times the co-moment of x and y
CoMoment(x, y) ==
    Len(x) * SumSeq([i \in 1..Len(x) |-> x[i] * y[i]]) - SumSeq(x) * SumSeq(y)

Sign(i) == IF i > 0 THEN 1 ELSE IF i < 0 THEN -1 ELSE 0

\* |r| in units of 1/Scale, rounded down: exactly Scale iff the columns are
\* perfectly correlated.
Magnitude(cov, vx, vy) ==
    IF cov * cov = vx * vy THEN Scale
    ELSE ISqrt((Scale * Scale * cov * cov) \div (vx * vy))

\* Internal unit of the distribution functions: 1/Milli.
Milli == 1000
PiMilli == 3142
HalfPiMilli == 1571

\* arcsin(s), s and the result in 1/Milli, by the polynomial
\* arccos(x) = sqrt(1-x) * (1.5707288 - 0.2121144 x + 0.0742610 x^2 - 0.0187293 x^3)
ArcSin(s) ==
    LET x2 == (s * s) \div Milli
        x3 == (x2 * s) \div Milli
        poly == 1571 - (212 * s) \div Milli + (74 * x2) \div Milli - (19 * x3) \div Milli
        arccos == (ISqrt((Milli - s) * Milli) * poly) \div Milli
    IN  Max(0, HalfPiMilli - arccos)

\* sum over k < m of a(k) * c2^k, with a(0) = 1 and
\* a(k) = a(k-1) * (2k-1)/(2k) for even degrees of freedom,
\* a(k) = a(k-1) * (2k)/(2k+1) for odd ones; in 1/Milli.
RECURSIVE SeriesSum(_, _, _, _, _)
SeriesSum(k, m, term, c2, odd) ==
    IF k >= m THEN 0
    ELSE LET next == IF odd THEN (((term * c2) \div Milli) * (2 * k + 2)) \div (2 * k + 3)
                            ELSE (((term * c2) \div Milli) * (2 * k + 1)) \div (2 * k + 2)
         IN  term + SeriesSum(k + 1, m, next, c2, odd)

\* Two-sided p-value of |r| = mag/Scale for n >= 3 observations: 1 - A(t|df),
\* df = n - 2, t = r * sqrt(df) / sqrt(1 - r^2), where with sin(theta) = |r|
\*   A = sin * sum_k a(k) cos^(2k)                           (df even)
\*   A = (2/pi) * (theta + sin * cos * sum_k a(k) cos^(2k))  (df odd)
\* In units of 1/Scale.
\* (PValueCumulative returns A, the cumulative probability, instead.)
PValueCumulative(n, mag) ==
    LET df == n - 2
        s == (mag * Milli) \div Scale
        c2 == Milli - (s * s) \div Milli
        cos == ISqrt(c2 * Milli)
        even == (s * SeriesSum(0, df \div 2, Milli, c2, FALSE)) \div Milli
        tail == (((s * cos) \div Milli) * SeriesSum(0, (df - 1) \div 2, Milli, c2, TRUE)) \div Milli
        odd == (2 * (ArcSin(s) + tail) * Milli) \div PiMilli
        A == IF df % 2 = 0 THEN even ELSE odd
    IN  IF mag = Scale THEN Scale
        ELSE (Min(Milli, Max(0, A)) * Scale) \div Milli

PValue(n, mag) ==
    LET df == n - 2
        s == (mag * Milli) \div Scale
        c2 == Milli - (s * s) \div Milli
        cos == ISqrt(c2 * Milli)
        even == (s * SeriesSum(0, df \div 2, Milli, c2, FALSE)) \div Milli
        tail == (((s * cos) \div Milli) * SeriesSum(0, (df - 1) \div 2, Milli, c2, TRUE)) \div Milli
        odd == (2 * (ArcSin(s) + tail) * Milli) \div PiMilli
        A == IF df % 2 = 0 THEN even ELSE odd
    IN  IF mag = Scale THEN 0
        ELSE (Min(Milli, Max(0, Milli - A)) * Scale) \div Milli

\* scipy.stats.pearsonr(x, y) for len(x) = len(y) >= 2: a constant input
\* gives (nan, nan) with a warning, two points give (+-1, 1.0).
pearsonr(x, y) ==
    LET n == Len(x)
        cov == CoMoment(x, y)
        vx == CoMoment(x, x)
        vy == CoMoment(y, y)
        mag == Magnitude(cov, vx, vy)
    IN  IF vx = 0 \/ vy = 0 THEN [correlation |-> NaN, p_value |-> NaN]
        ELSE IF n = 2
        THEN [correlation |-> Float(Sign(x[2] - x[1]) * Sign(y[2] - y[1]) * Scale),
              p_value |-> Float(Scale)]
        ELSE [correlation |-> Float(Sign(cov) * mag),
              p_value |-> Float(PValue(n, mag))]

\* (calculate_correlation_with_p_value_from_four asks for four points.)
calculate_correlation_with_p_value_from_four(x, y) ==
    IF Len(x) # Len(y) \/ Len(x) < 4
    THEN [correlation |-> Float(0), p_value |-> Float(Scale)]
    ELSE pearsonr(x, y)

calculate_correlation_with_p_value(x, y) ==
    IF Len(x) # Len(y) \/ Len(x) < 2
    THEN [correlation |-> Float(0), p_value |-> Float(Scale)]
    ELSE pearsonr(x, y)

\* stats.norm.ppf(1 - alpha / 2) for confidence = 0.95, in 1/Milli
ZCritical == 1960

\* tanh(d), d and the result in 1/Milli, by the Pade approximant
\* x (945 + 105 x^2 + x^4) / (945 + 420 x^2 + 15 x^4)
Tanh(d) ==
    LET x2 == (d * d) \div Milli
        x4 == (x2 * x2) \div Milli
        num == d * ((945 * Milli + 105 * x2 + x4) \div 100)
        den == (945 * Milli + 420 * x2 + 15 * x4) \div 100
    IN  Min(Milli, num \div den)

\* The confidence levels the estimator is called with, in percent, and the
\* default of the `confidence` parameter.
DefaultConfidence == 95
Confidences == {90, DefaultConfidence, 99}

\* stats.norm.ppf(1 - (1 - confidence) / 2), in 1/Milli
\* (z_critical_lower_tail is stats.norm.ppf((1 - confidence) / 2), the
\* quantile of the other tail.)
z_critical_lower_tail(confidence) ==
    CASE confidence = 90 -> -1645
      [] confidence = DefaultConfidence -> -ZCritical
      [] confidence = 99 -> -2576

z_critical(confidence) ==
    CASE confidence = 90 -> 1645
      [] confidence = DefaultConfidence -> ZCritical
      [] confidence = 99 -> 2576

\* Floor and ceiling of a / b for b > 0.
Floor(a, b) == a \div b
Ceil(a, b) == -((-a) \div b)

\* The estimator with the guard `sample_size < 2`: two observations reach
\* np.sqrt(-1), which is nan.
calculate_confidence_interval_from_two(correlation, sample_size, confidence, np_float) ==
    LET r == correlation.v
        se == (Milli * Milli) \div ISqrt((sample_size - 3) * Milli * Milli)
        t == Tanh((z_critical(confidence) * se) \div Milli)
        lower == Floor((r * Milli - t * Scale) * Scale, Scale * Milli - r * t)
        upper == Ceil((r * Milli + t * Scale) * Scale, Scale * Milli + r * t)
    IN  IF sample_size < 2 THEN <<Float(0), Float(0)>>
        ELSE IF correlation.nan \/ Abs(r) > Scale THEN <<NaN, NaN>>
        ELSE IF r = Scale THEN (IF np_float THEN <<NaN, NaN>> ELSE <<Float(0), Float(0)>>)
        ELSE IF sample_size < 3 THEN <<NaN, NaN>>
        ELSE IF r = -Scale THEN (IF sample_size = 3 THEN <<Float(-Scale), NaN>>
                                                     ELSE <<Float(-Scale), Float(-Scale)>>)
        ELSE IF sample_size = 3 THEN <<Float(-Scale), NaN>>
        ELSE <<Float(lower), Float(upper)>>

\* calculate_confidence_interval(correlation, sample_size, confidence).
\* np_float says whether `correlation` is a numpy float (a division by zero
\* gives inf and a warning) or a Python float (it raises ZeroDivisionError,
\* which the except clause turns into [0.0, 0.0]).
\* With t = tanh(z_critical * se), in 1/Milli, the bounds
\* tanh(atanh(r) -+ z_critical * se) are (r - t) / (1 - r t) and
\* (r + t) / (1 + r t).  At the resolution
\* 1/Scale the lower bound is rounded down and the upper bound up, so that
\* the rounding never moves a bound across the coefficient.
calculate_confidence_interval(correlation, sample_size, confidence, np_float) ==
    LET r == correlation.v
        se == (Milli * Milli) \div ISqrt((sample_size - 3) * Milli * Milli)
        t == Tanh((z_critical(confidence) * se) \div Milli)
        lower == Floor((r * Milli - t * Scale) * Scale, Scale * Milli - r * t)
        upper == Ceil((r * Milli + t * Scale) * Scale, Scale * Milli + r * t)
    IN  IF sample_size < 3 THEN <<Float(0), Float(0)>>
        ELSE IF correlation.nan \/ Abs(r) > Scale THEN <<NaN, NaN>>
        ELSE IF r = Scale THEN (IF np_float THEN <<NaN, NaN>> ELSE <<Float(0), Float(0)>>)
        ELSE IF r = -Scale THEN (IF sample_size = 3 THEN <<Float(-Scale), NaN>>
                                                     ELSE <<Float(-Scale), Float(-Scale)>>)
        ELSE IF sample_size = 3 THEN <<Float(-Scale), NaN>>
        ELSE <<Float(lower), Float(upper)>>

\* np.mean([abs(corr) for corr in correlations])
MeanAbs(correlations) ==
    IF \E i \in 1..Len(correlations) : correlations[i].nan THEN NaN
    ELSE Float(SumSeq([i \in 1..Len(correlations) |-> Abs(correlations[i].v)])
               \div Len(correlations))

Square(f) == IF f.nan THEN NaN ELSE Float((f.v * f.v) \div Scale)

perform_correlation_analysis(weather_data, stock_data, left_order) ==
    LET aligned == align_weather_stock_data(weather_data, stock_data, left_order)
        weather_aligned == aligned.value.weather_aligned
        stock_aligned == aligned.value.stock_aligned
        close == Column(stock_aligned, "close_price")
        temp == calculate_correlation_with_p_value(Column(weather_aligned, "temperature_avg"), close)
        precip == calculate_correlation_with_p_value(Column(weather_aligned, "precipitation"), close)
        humidity == calculate_correlation_with_p_value(Column(weather_aligned, "humidity"), close)
        wind == calculate_correlation_with_p_value(Column(weather_aligned, "wind_speed"), close)
        pressure == calculate_correlation_with_p_value(Column(weather_aligned, "pressure"), close)
        correlations == <<temp.correlation, precip.correlation, humidity.correlation,
                          wind.correlation, pressure.correlation>>
        overall_correlation == MeanAbs(correlations)
        sample_size == Len(weather_aligned.rows)
    IN  IF aligned.raised THEN aligned
        ELSE IF IsEmpty(weather_aligned) \/ IsEmpty(stock_aligned)
        THEN Raised(NoOverlappingData)
        ELSE Returned(
            [temperature_correlation |-> temp.correlation,
             precipitation_correlation |-> precip.correlation,
             humidity_correlation |-> humidity.correlation,
             wind_speed_correlation |-> wind.correlation,
             pressure_correlation |-> pressure.correlation,
             temperature_p_value |-> temp.p_value,
             precipitation_p_value |-> precip.p_value,
             humidity_p_value |-> humidity.p_value,
             wind_speed_p_value |-> wind.p_value,
             pressure_p_value |-> pressure.p_value,
             temperature_strength |-> calculate_correlation_strength(temp.correlation),
             precipitation_strength |-> calculate_correlation_strength(precip.correlation),
             humidity_strength |-> calculate_correlation_strength(humidity.correlation),
             wind_speed_strength |-> calculate_correlation_strength(wind.correlation),
             pressure_strength |-> calculate_correlation_strength(pressure.correlation),
             overall_correlation |-> overall_correlation,
             confidence_interval |-> calculate_confidence_interval(overall_correlation, sample_size,
                                                                  DefaultConfidence, TRUE),
             r_squared |-> Square(overall_correlation),
             sample_size |-> sample_size])

\* The columns of combined_df, in order.
\* (MatrixVariablesByName lists the weather columns alphabetically.)
MatrixVariablesByName ==
    <<"humidity", "precipitation", "pressure", "temperature_avg", "wind_speed",
      "close_price", "percentage_change", "volume">>

MatrixVariables ==
    <<"temperature_avg", "precipitation", "humidity", "wind_speed", "pressure",
      "close_price", "percentage_change", "volume">>

\* One entry of DataFrame.corr(): nan when the divisor
\* sqrt(ssqdx * ssqdy) is zero, the Pearson coefficient otherwise.
\* (corr_by_first divides by ssqdx alone, the slope of y on x.)
corr_by_first(x, y) ==
    LET cov == CoMoment(x, y)
        vx == CoMoment(x, x)
        vy == CoMoment(y, y)
    IN  IF vx = 0 \/ vy = 0 THEN NaN
        ELSE Float(Sign(cov) * ((Scale * Abs(cov)) \div vx))

corr(x, y) ==
    LET cov == CoMoment(x, y)
        vx == CoMoment(x, x)
        vy == CoMoment(y, y)
    IN  IF vx = 0 \/ vy = 0 THEN NaN
        ELSE Float(Sign(cov) * Magnitude(cov, vx, vy))

EmptyMatrix == [variables |-> <<>>, matrix |-> <<>>, p_values |-> <<>>]

create_correlation_matrix(weather_data, stock_data, left_order) ==
    LET aligned == align_weather_stock_data(weather_data, stock_data, left_order)
        weather_aligned == aligned.value.weather_aligned
        stock_aligned == aligned.value.stock_aligned
        col(i) == IF i <= 5 THEN Column(weather_aligned, MatrixVariables[i])
                            ELSE Column(stock_aligned, MatrixVariables[i])
        k == Len(MatrixVariables)
    IN  IF aligned.raised THEN aligned
        ELSE IF IsEmpty(weather_aligned) \/ IsEmpty(stock_aligned)
        THEN Returned(EmptyMatrix)
        ELSE Returned(
            [variables |-> MatrixVariables,
             matrix |-> [i \in 1..k |-> [j \in 1..k |-> corr(col(i), col(j))]],
             p_values |-> [i \in 1..k |-> [j \in 1..k |->
                             IF i = j THEN Float(0)
                             ELSE calculate_correlation_with_p_value(col(i), col(j)).p_value]]])

\* Thresholds of the extreme conditions and the length of the event list.
ExtremeHeat == 35
ExtremeCold == -10
HeavyRain == 50
HighWinds == 20
TopEvents == 10

\* The event type of a weather observation, "" when it is not extreme.
\* (EventTypeWindFirst checks the wind before the temperature.)
EventTypeWindFirst(weather) ==
    IF weather.wind_speed > HighWinds THEN "high_winds"
    ELSE IF weather.temperature_avg > ExtremeHeat THEN "extreme_heat"
    ELSE IF weather.temperature_avg < ExtremeCold THEN "extreme_cold"
    ELSE IF weather.precipitation > HeavyRain THEN "heavy_rain"
    ELSE ""

EventType(weather) ==
    IF weather.temperature_avg > ExtremeHeat THEN "extreme_heat"
    ELSE IF weather.temperature_avg < ExtremeCold THEN "extreme_cold"
    ELSE IF weather.precipitation > HeavyRain THEN "heavy_rain"
    ELSE IF weather.wind_speed > HighWinds THEN "high_winds"
    ELSE ""

\* The value the description of an event of the given type shows.
Described(weather, event_type) ==
    IF event_type \in {"extreme_heat", "extreme_cold"} THEN weather.temperature_avg
    ELSE IF event_type = "heavy_rain" THEN weather.precipitation
    ELSE weather.wind_speed

\* stock_dict = {data.date.date(): data for data in stock_data}: the last
\* observation of a date wins.
InStockDict(stock_data, date) == \E i \in 1..Len(stock_data) : DateOf(stock_data[i].date) = date

StockDict(stock_data, date) ==
    LET i == CHOOSE i \in 1..Len(stock_data) :
                 /\ DateOf(stock_data[i].date) = date
                 /\ \A j \in (i + 1)..Len(stock_data) : DateOf(stock_data[j].date) # date
    IN  stock_data[i]

\* (EventOfMagnitude reports the magnitude of the change as market_impact.)
EventOfMagnitude(weather, stock) ==
    [date |-> weather.date,
     city |-> weather.city,
     event_type |-> EventType(weather),
     description |-> <<EventType(weather), Described(weather, EventType(weather))>>,
     market_impact |-> Abs(stock.percentage_change),
     correlation_impact |-> Abs(stock.percentage_change)]

Event(weather, stock) ==
    [date |-> weather.date,
     city |-> weather.city,
     event_type |-> EventType(weather),
     description |-> <<EventType(weather), Described(weather, EventType(weather))>>,
     market_impact |-> stock.percentage_change,
     correlation_impact |-> Abs(stock.percentage_change)]

\* list.sort(key=correlation_impact, reverse=True): stable, descending.
\* (InsertEventBeforeTies puts an event in front of its ties.)
RECURSIVE InsertEventBeforeTies(_, _)
InsertEventBeforeTies(sorted, e) ==
    IF sorted = <<>> THEN <<e>>
    ELSE IF Head(sorted).correlation_impact > e.correlation_impact
         THEN <<Head(sorted)>> \o InsertEventBeforeTies(Tail(sorted), e)
         ELSE <<e>> \o sorted

RECURSIVE InsertEvent(_, _)
InsertEvent(sorted, e) ==
    IF sorted = <<>> THEN <<e>>
    ELSE IF Head(sorted).correlation_impact >= e.correlation_impact
         THEN <<Head(sorted)>> \o InsertEvent(Tail(sorted), e)
         ELSE <<e>> \o sorted

RECURSIVE SortEvents(_)
SortEvents(events) ==
    IF events = <<>> THEN <<>>
    ELSE InsertEvent(SortEvents(SubSeq(events, 1, Len(events) - 1)), events[Len(events)])

\* (detect_significant_events_unsorted truncates without sorting.)
detect_significant_events_unsorted(weather_data, stock_data) ==
    LET found(i) == IF /\ EventType(weather_data[i]) # ""
                       /\ InStockDict(stock_data, DateOf(weather_data[i].date))
                    THEN <<Event(weather_data[i], StockDict(stock_data, DateOf(weather_data[i].date)))>>
                    ELSE <<>>
        events == Flatten([i \in 1..Len(weather_data) |-> found(i)])
    IN  IF weather_data = <<>> \/ stock_data = <<>> THEN Returned(<<>>)
        ELSE Returned(SubSeq(events, 1, Min(TopEvents, Len(events))))

detect_significant_events(weather_data, stock_data) ==
    LET found(i) == IF /\ EventType(weather_data[i]) # ""
                       /\ InStockDict(stock_data, DateOf(weather_data[i].date))
                    THEN <<Event(weather_data[i], StockDict(stock_data, DateOf(weather_data[i].date)))>>
                    ELSE <<>>
        events == Flatten([i \in 1..Len(weather_data) |-> found(i)])
        sorted == SortEvents(events)
    IN  IF weather_data = <<>> \/ stock_data = <<>> THEN Returned(<<>>)
        ELSE Returned(SubSeq(sorted, 1, Min(TopEvents, Len(sorted))))

\* ---------------------------------------------------------------- service
\* Optional[...] fields of CorrelationResponse
None == [some |-> FALSE]
Some(v) == [some |-> TRUE, v |-> v]

\* str(e): the message of an exception, without the name of its class
str(e) ==
    CASE e = NoOverlappingData -> "No overlapping data found for correlation analysis"
      [] e = KeyError -> "'date'"

NoDataAvailable == "No data available for the specified parameters"

\* CorrelationResponse(success=False, error=...)
Failure(error) ==
    [success |-> FALSE, analysis |-> None, matrix |-> None, events |-> None,
     error |-> Some(error)]

\* CorrelationService.analyze_correlation, from the two lists the weather
\* and stock services fetched (both services catch their own errors and
\* return a list).
\* (analyze_correlation_reraising lets the error of the analysis through.)
analyze_correlation_reraising(weather_data, stock_data, left_order) ==
    LET analysis == perform_correlation_analysis(weather_data, stock_data, left_order)
        matrix == create_correlation_matrix(weather_data, stock_data, left_order)
        events == detect_significant_events(weather_data, stock_data)
    IN  IF weather_data = <<>> \/ stock_data = <<>> THEN Returned(Failure(NoDataAvailable))
        ELSE IF analysis.raised THEN analysis
        ELSE IF matrix.raised THEN Returned(Failure(str(matrix.error)))
        ELSE IF events.raised THEN Returned(Failure(str(events.error)))
        ELSE Returned([success |-> TRUE,
                       analysis |-> Some(analysis.value),
                       matrix |-> Some(matrix.value),
                       events |-> Some(events.value),
                       error |-> None])

analyze_correlation(weather_data, stock_data, left_order) ==
    LET analysis == perform_correlation_analysis(weather_data, stock_data, left_order)
        matrix == create_correlation_matrix(weather_data, stock_data, left_order)
        events == detect_significant_events(weather_data, stock_data)
    IN  IF weather_data = <<>> \/ stock_data = <<>> THEN Returned(Failure(NoDataAvailable))
        ELSE IF analysis.raised THEN Returned(Failure(str(analysis.error)))
        ELSE IF matrix.raised THEN Returned(Failure(str(matrix.error)))
        ELSE IF events.raised THEN Returned(Failure(str(events.error)))
        ELSE Returned([success |-> TRUE,
                       analysis |-> Some(analysis.value),
                       matrix |-> Some(matrix.value),
                       events |-> Some(events.value),
                       error |-> None])

\* ------------------------------------------------------------------ state
\* weather_data, stock_data: the two observation lists handed to the core
\* left_order: whether the installed pandas keeps the order of the left rows
\* x, y: the two sequences handed to the pair correlator
\* correlation_coefficient: the coefficient handed to the classifier and to
\*   the confidence-interval estimator
\* sample_size, confidence: the other arguments of the estimator
\* np_float: whether the coefficient handed to the estimator is a numpy float
\* date_range_valid: whether validate_date_range accepts the requested range
\* cached_analysis: whether the cache holds a row for the request
\* pc: the statement the GET route is at ("idle" when no request is served)
\* steps: the calls the GET route has made so far, in order
\* invocations: the concurrent invocations of the core, each with its
\*   operation, the lists it was handed, its state and its result
\* call: the operation that was invoked ("none" before the call)
\* result: what the call returned or raised
VARIABLES weather_data, stock_data, left_order, x, y, correlation_coefficient,
          sample_size, confidence, np_float, date_range_valid, cached_analysis,
          pc, steps, invocations, call, result

vars == <<weather_data, stock_data, left_order, x, y, correlation_coefficient,
          sample_size, confidence, np_float, date_range_valid, cached_analysis,
          pc, steps, invocations, call, result>>

inputs == <<weather_data, stock_data, left_order, x, y, correlation_coefficient,
            sample_size, confidence, np_float, date_range_valid, cached_analysis>>

\* Where the GET route and the concurrent invocations stand.
progress == <<pc, steps, invocations>>

NoResult == Raised("none")

\* No request is being served and no concurrent invocation was started.
NoRequest ==
    /\ date_range_valid = TRUE
    /\ cached_analysis = FALSE
    /\ pc = "idle"
    /\ steps = <<>>
    /\ invocations = <<>>

\* The lists the services hand over: one observation for each of n
\* consecutive days, both lists over the same days in ascending order.
WeatherSeries(n) == {[i \in 1..n |-> WeatherData(i, hours[i])] : hours \in [1..n -> WeatherHours]}
StockSeries(n) == {[i \in 1..n |-> StockData(i, hours[i])] : hours \in [1..n -> StockHours]}

\* The core is called with two observation lists: either two arbitrary short
\* lists, or two daily series of the same days.
Init ==
    /\ \/ /\ weather_data \in SeqsUpTo(WeatherObs, MaxLen)
          /\ stock_data \in SeqsUpTo(StockObs, MaxLen)
       \/ \E n \in 1..MaxSeries :
             /\ weather_data \in WeatherSeries(n)
             /\ stock_data \in StockSeries(n)
    /\ left_order \in BOOLEAN
    /\ x = <<>>
    /\ y = <<>>
    /\ correlation_coefficient = Float(0)
    /\ sample_size = 0
    /\ confidence = DefaultConfidence
    /\ np_float = TRUE
    /\ NoRequest
    /\ call = "none"
    /\ result = NoResult

Align ==
    /\ call = "none"
    /\ call' = "align"
    /\ result' = align_weather_stock_data(weather_data, stock_data, left_order)
    /\ UNCHANGED <<inputs, progress>>

Analyze ==
    /\ call = "none"
    /\ call' = "analyze"
    /\ result' = perform_correlation_analysis(weather_data, stock_data, left_order)
    /\ UNCHANGED <<inputs, progress>>

BuildMatrix ==
    /\ call = "none"
    /\ call' = "buildMatrix"
    /\ result' = create_correlation_matrix(weather_data, stock_data, left_order)
    /\ UNCHANGED <<inputs, progress>>

DetectEvents ==
    /\ call = "none"
    /\ call' = "detectEvents"
    /\ result' = detect_significant_events(weather_data, stock_data)
    /\ UNCHANGED <<inputs, progress>>

Next == Align \/ Analyze \/ BuildMatrix \/ DetectEvents

Spec == Init /\ [][Next]_vars

\* The classifier is called with a coefficient in [-1, 1].
InitStrength ==
    /\ weather_data = <<>>
    /\ stock_data = <<>>
    /\ left_order = TRUE
    /\ x = <<>>
    /\ y = <<>>
    /\ correlation_coefficient \in {Float(v) : v \in (-Scale)..Scale}
    /\ sample_size = 0
    /\ confidence = DefaultConfidence
    /\ np_float = TRUE
    /\ NoRequest
    /\ call = "none"
    /\ result = NoResult

ClassifyStrength ==
    /\ call = "none"
    /\ call' = "classifyStrength"
    /\ result' = Returned(calculate_correlation_strength(correlation_coefficient))
    /\ UNCHANGED <<inputs, progress>>

NextStrength == ClassifyStrength

SpecStrength == InitStrength /\ [][NextStrength]_vars

\* The pair correlator is called with two sequences of numbers.
InitPair ==
    /\ weather_data = <<>>
    /\ stock_data = <<>>
    /\ left_order = TRUE
    /\ x \in SeqsUpTo(1..MaxVal, MaxPairLen)
    /\ y \in SeqsUpTo(1..MaxVal, MaxPairLen)
    /\ correlation_coefficient = Float(0)
    /\ sample_size = 0
    /\ confidence = DefaultConfidence
    /\ np_float = TRUE
    /\ NoRequest
    /\ call = "none"
    /\ result = NoResult

PairCorrelator ==
    /\ call = "none"
    /\ call' = "pairCorrelator"
    /\ result' = Returned(calculate_correlation_with_p_value(x, y))
    /\ UNCHANGED <<inputs, progress>>

NextPair == PairCorrelator

SpecPair == InitPair /\ [][NextPair]_vars

\* The confidence-interval estimator is called with a coefficient in
\* [-1, 1] or not-a-number, a sample size and a confidence level.
InitInterval ==
    /\ weather_data = <<>>
    /\ stock_data = <<>>
    /\ left_order = TRUE
    /\ x = <<>>
    /\ y = <<>>
    /\ correlation_coefficient \in {Float(v) : v \in (-Scale)..Scale} \cup {NaN}
    /\ sample_size \in 0..MaxSample
    /\ confidence \in Confidences
    /\ np_float \in BOOLEAN
    /\ NoRequest
    /\ call = "none"
    /\ result = NoResult

ConfidenceInterval ==
    /\ call = "none"
    /\ call' = "confidenceInterval"
    /\ result' = Returned(calculate_confidence_interval(correlation_coefficient, sample_size,
                                                        confidence, np_float))
    /\ UNCHANGED <<inputs, progress>>

NextInterval == ConfidenceInterval

SpecInterval == InitInterval /\ [][NextInterval]_vars

\* The event detector is called with a weather list long enough to exceed
\* the length of the event list: every observation is extreme and has a
\* stock observation of its date, two of the three kinds of observation
\* have the same correlation_impact.  A list is a run of equal observations
\* between up to MaxLen arbitrary ones at either end, at most
\* TopEvents + MaxExtra in all.
EventObs == {WeatherData(1, 0), WeatherData(2, 12), WeatherData(3, 12)}

EventLists ==
    {head \o [i \in 1..m |-> run] \o tail :
        head \in SeqsUpTo(EventObs, MaxLen),
        run \in EventObs,
        m \in 0..(TopEvents + MaxExtra - 2 * MaxLen),
        tail \in SeqsUpTo(EventObs, MaxLen)}

InitEvents ==
    /\ weather_data \in EventLists
    /\ stock_data \in StockSeries(3)
    /\ left_order = TRUE
    /\ x = <<>>
    /\ y = <<>>
    /\ correlation_coefficient = Float(0)
    /\ sample_size = 0
    /\ confidence = DefaultConfidence
    /\ np_float = TRUE
    /\ NoRequest
    /\ call = "none"
    /\ result = NoResult

NextEvents == DetectEvents

SpecEvents == InitEvents /\ [][NextEvents]_vars

\* The event detector is called with observations whose temperature,
\* precipitation and wind speed lie on or next to the thresholds, all on
\* the day of the one stock observation.
ThresholdWeather(temperature_avg, precipitation, wind_speed) ==
    [date |-> [day |-> 1, hour |-> 0],
     city |-> "NYC",
     temperature_avg |-> temperature_avg,
     precipitation |-> precipitation,
     humidity |-> 60,
     wind_speed |-> wind_speed,
     pressure |-> 1000]

ThresholdObs ==
    {ThresholdWeather(t, p, w) :
        t \in {ExtremeCold - 1, ExtremeCold, ExtremeHeat, ExtremeHeat + 1},
        p \in {HeavyRain, HeavyRain + 1},
        w \in {HighWinds, HighWinds + 1}}

InitExtremes ==
    /\ weather_data \in SeqsUpTo(ThresholdObs, MaxLen)
    /\ stock_data = <<StockData(1, 16)>>
    /\ left_order = TRUE
    /\ x = <<>>
    /\ y = <<>>
    /\ correlation_coefficient = Float(0)
    /\ sample_size = 0
    /\ confidence = DefaultConfidence
    /\ np_float = TRUE
    /\ NoRequest
    /\ call = "none"
    /\ result = NoResult

NextExtremes == DetectEvents

SpecExtremes == InitExtremes /\ [][NextExtremes]_vars

\* The correlation service is called; the weather and stock services hand
\* it two lists.
AnalyzeCorrelation ==
    /\ call = "none"
    /\ call' = "analyzeCorrelation"
    /\ result' = analyze_correlation(weather_data, stock_data, left_order)
    /\ UNCHANGED <<inputs, progress>>

NextService == AnalyzeCorrelation

SpecService == Init /\ [][NextService]_vars

\* The GET correlation route serves one request, statement by statement.
\* The services answer with the empty list or a daily series each.
InternalServerError == "HTTPException: 500 Internal server error"

FetchedWeather == {<<>>} \cup UNION {WeatherSeries(n) : n \in 1..MaxSeries}
FetchedStock == {<<>>} \cup UNION {StockSeries(n) : n \in 1..MaxSeries}

InitRoute ==
    /\ weather_data \in FetchedWeather
    /\ stock_data \in FetchedStock
    /\ left_order \in BOOLEAN
    /\ x = <<>>
    /\ y = <<>>
    /\ correlation_coefficient = Float(0)
    /\ sample_size = 0
    /\ confidence = DefaultConfidence
    /\ np_float = TRUE
    /\ date_range_valid \in BOOLEAN
    /\ cached_analysis \in BOOLEAN
    /\ pc = "validate"
    /\ steps = <<>>
    /\ invocations = <<>>
    /\ call = "getCorrelationAnalysis"
    /\ result = NoResult

BadRequest == "HTTPException: 400"

\* The date range is parsed and validated.  datetime.fromisoformat raises
\* ValueError for a malformed date, answered with HTTPException(400); a
\* range validate_date_range rejects raises HTTPException(400) inside the
\* try, which the route's own `except Exception` turns into
\* HTTPException(500).
Validate ==
    /\ pc = "validate"
    /\ IF date_range_valid
       THEN pc' = "lookup" /\ result' = result
       ELSE /\ pc' = "done"
            /\ \E error \in {BadRequest, InternalServerError} : result' = Raised(error)
    /\ UNCHANGED <<inputs, steps, invocations, call>>

\* cached_analysis = get_cached_correlation_analysis(...); a hit is logged
\* and passed over.
\* (CacheLookupAnswering answers a hit from the cache.)
CacheLookupAnswering ==
    /\ pc = "lookup"
    /\ steps' = Append(steps, "get_cached_correlation_analysis")
    /\ pc' = IF cached_analysis THEN "done" ELSE "analyze"
    /\ UNCHANGED <<inputs, invocations, call, result>>

CacheLookup ==
    /\ pc = "lookup"
    /\ steps' = Append(steps, "get_cached_correlation_analysis")
    /\ pc' = "analyze"
    /\ UNCHANGED <<inputs, invocations, call, result>>

\* analysis_result = await correlation_service.analyze_correlation(...)
RouteAnalyze ==
    /\ pc = "analyze"
    /\ steps' = Append(steps, "analyze_correlation")
    /\ result' = analyze_correlation(weather_data, stock_data, left_order)
    /\ pc' = IF result'.value.analysis.some THEN "cache" ELSE "done"
    /\ UNCHANGED <<inputs, invocations, call>>

\* cache_correlation_analysis(analysis_result.analysis), which re-raises
\* what the database raises; then return analysis_result.
CacheWrite ==
    /\ pc = "cache"
    /\ steps' = Append(steps, "cache_correlation_analysis")
    /\ \E written \in BOOLEAN :
           result' = IF written THEN result ELSE Raised(InternalServerError)
    /\ pc' = "done"
    /\ UNCHANGED <<inputs, invocations, call>>

NextRoute == Validate \/ CacheLookup \/ RouteAnalyze \/ CacheWrite

SpecRoute == InitRoute /\ [][NextRoute]_vars

\* Two invocations of the core run concurrently on the same two lists, a
\* daily series of one day or of MaxSeries days: each is handed the lists
\* when it begins and reads them when it runs.
MaxInvocations == 2
Operations == {"align", "analyze", "buildMatrix", "detectEvents"}

\* What an operation returns or raises on two lists.
Apply(operation, weather, stock, order) ==
    CASE operation = "align" -> align_weather_stock_data(weather, stock, order)
      [] operation = "analyze" -> perform_correlation_analysis(weather, stock, order)
      [] operation = "buildMatrix" -> create_correlation_matrix(weather, stock, order)
      [] operation = "detectEvents" -> detect_significant_events(weather, stock)

RECURSIVE Reverse(_)
Reverse(s) == IF s = <<>> THEN <<>> ELSE Reverse(Tail(s)) \o <<Head(s)>>

\* The two lists as an operation leaves them: the operations build frames,
\* a dictionary and an event list of their own and write to none of their
\* arguments.
\* (lists_after_reversing has detectEvents reverse its weather list in
\* place.)
lists_after_reversing(operation, weather, stock) ==
    IF operation = "detectEvents" THEN <<Reverse(weather), stock>> ELSE <<weather, stock>>

lists_after(operation, weather, stock) == <<weather, stock>>

InitConcurrent ==
    /\ \E n \in {1, MaxSeries} :
           /\ weather_data \in WeatherSeries(n)
           /\ stock_data \in StockSeries(n)
    /\ left_order \in BOOLEAN
    /\ x = <<>>
    /\ y = <<>>
    /\ correlation_coefficient = Float(0)
    /\ sample_size = 0
    /\ confidence = DefaultConfidence
    /\ np_float = TRUE
    /\ date_range_valid = TRUE
    /\ cached_analysis = FALSE
    /\ pc = "idle"
    /\ steps = <<>>
    /\ invocations = [i \in 1..MaxInvocations |->
                         [state |-> "idle", operation |-> "none",
                          weather |-> <<>>, stock |-> <<>>, result |-> NoResult]]
    /\ call = "concurrent"
    /\ result = NoResult

\* Invocation i is called with the two lists.
Begin(i) ==
    /\ invocations[i].state = "idle"
    /\ \E operation \in Operations :
           invocations' = [invocations EXCEPT ![i] =
                              [state |-> "running", operation |-> operation,
                               weather |-> weather_data, stock |-> stock_data,
                               result |-> NoResult]]
    /\ UNCHANGED <<inputs, pc, steps, call, result>>

\* Invocation i runs on the lists as they are now and returns.
Finish(i) ==
    /\ invocations[i].state = "running"
    /\ invocations' = [invocations EXCEPT
                          ![i].state = "done",
                          ![i].result = Apply(invocations[i].operation, weather_data,
                                              stock_data, left_order)]
    /\ weather_data' = lists_after(invocations[i].operation, weather_data, stock_data)[1]
    /\ stock_data' = lists_after(invocations[i].operation, weather_data, stock_data)[2]
    /\ UNCHANGED <<left_order, x, y, correlation_coefficient, sample_size, confidence,
                   np_float, date_range_valid, cached_analysis, pc, steps, call, result>>

NextConcurrent == \E i \in 1..MaxInvocations : Begin(i) \/ Finish(i)

SpecConcurrent == InitConcurrent /\ [][NextConcurrent]_vars

\* ----------------------------------------------------------------- claims
\* The calendar dates of an observation list.
Dates(data) == {DateOf(data[i].date) : i \in 1..Len(data)}

\* The dates of the rows of a frame.
RowDates(df) == {df.rows[i].date : i \in 1..Len(df.rows)}

\* All elements of a sequence are identical (zero variance).
Constant(s) == \A i, j \in 1..Len(s) : s[i] = s[j]

\* C1: classifyStrength returns weak iff |r| < 0.3, moderate iff
\* 0.3 <= |r| < 0.7 and strong iff |r| >= 0.7, for every coefficient r in
\* [-1, 1]; 0.3 and -0.3 are moderate, 0.7 and -0.7 are strong.
StrengthBuckets ==
    call = "classifyStrength" =>
        LET a == Abs(correlation_coefficient.v)
        IN  /\ ~result.raised
            /\ (result.value = "weak") <=> (10 * a < 3 * Scale)
            /\ (result.value = "moderate") <=> (3 * Scale <= 10 * a /\ 10 * a < 7 * Scale)
            /\ (result.value = "strong") <=> (10 * a >= 7 * Scale)

\* The coefficient -0.7, exactly on a boundary, was classified.
StrengthBoundaryClassified ==
    /\ call = "classifyStrength"
    /\ correlation_coefficient.v < 0
    /\ 10 * Abs(correlation_coefficient.v) = 7 * Scale
    /\ result.value = "strong"

\* C2: analyze on two series that share no calendar date fails with
\* NoOverlappingData.
AnalyzeNoOverlapRaises ==
    (call = "analyze" /\ Dates(weather_data) \cap Dates(stock_data) = {}) =>
        result = Raised(NoOverlappingData)

\* C3: analyze either returns a record or raises NoOverlappingData (and
\* that only when no date is shared), never any other error.
AnalyzeOnlyNoOverlap ==
    (call = "analyze" /\ result.raised) =>
        /\ result = Raised(NoOverlappingData)
        /\ Dates(weather_data) \cap Dates(stock_data) = {}

\* C4: buildMatrix on two series that share no calendar date returns the
\* empty matrix.
MatrixNoOverlapEmpty ==
    (call = "buildMatrix" /\ Dates(weather_data) \cap Dates(stock_data) = {}) =>
        result = Returned(EmptyMatrix)

\* C5: buildMatrix and detectEvents never raise, whatever the two lists,
\* empty lists included.
MatrixAndEventsNeverRaise ==
    call \in {"buildMatrix", "detectEvents"} => ~result.raised

\* C6: align returns rows whose dates are exactly the calendar dates that
\* occur in both lists, for lists of any length, zero included.
AlignDatesAreIntersection ==
    call = "align" =>
        /\ ~result.raised
        /\ RowDates(result.value.weather_aligned) = Dates(weather_data) \cap Dates(stock_data)

\* C7: the sample align returns has at most min(len(weather), len(stock))
\* rows and no two rows of the same date, also when a date is repeated in
\* an input list.
AlignRowsBoundedUnique ==
    (call = "align" /\ ~result.raised) =>
        LET rows == result.value.weather_aligned.rows
        IN  /\ Len(rows) <= Min(Len(weather_data), Len(stock_data))
            /\ \A i, j \in 1..Len(rows) : rows[i].date = rows[j].date => i = j

\* C8: the rows align returns are in ascending date order, whatever the
\* order of the two input lists.
AlignRowsAscending ==
    (call = "align" /\ ~result.raised) =>
        LET rows == result.value.weather_aligned.rows
        IN  \A i, j \in 1..Len(rows) : i < j => rows[i].date <= rows[j].date

\* C9: joining the weather frame with the stock frame and joining the stock
\* frame with the weather frame fail together or give the same set of
\* dates.
AlignSymmetric ==
    call = "align" =>
        LET swapped == merge(stock_df(stock_data), weather_df(weather_data), left_order)
        IN  /\ result.raised <=> swapped.raised
            /\ ~result.raised =>
                   RowDates(result.value.weather_aligned) = RowDates(swapped.value)

\* Two lists were aligned that share a date while one of them has a date
\* the other lacks.
AlignedPartialOverlap ==
    /\ call = "align"
    /\ ~result.raised
    /\ RowDates(result.value.weather_aligned) # {}
    /\ Dates(weather_data) # Dates(stock_data)

\* C10: the pair correlator returns exactly (0.0, 1.0) whenever the
\* sequences are shorter than 2 or one of them has zero variance, and never
\* raises.
PairDegenerateDefault ==
    call = "pairCorrelator" =>
        /\ ~result.raised
        /\ (Len(x) < 2 \/ Len(y) < 2 \/ Constant(x) \/ Constant(y)) =>
               result.value = [correlation |-> Float(0), p_value |-> Float(Scale)]

\* C11: for every sequence s of length >= 2 that is not constant, the pair
\* correlator applied to (s, s) returns coefficient 1.0 and p-value 0.0.
SelfCorrelationPerfect ==
    (call = "pairCorrelator" /\ x = y /\ Len(x) >= 2 /\ ~Constant(x)) =>
        result = Returned([correlation |-> Float(Scale), p_value |-> Float(0)])

\* C11 as the code has it: coefficient 1.0 for every such s; the p-value is
\* 0.0 from three elements on and 1.0 for two elements.
SelfCorrelationFromThree ==
    (call = "pairCorrelator" /\ x = y /\ Len(x) >= 2 /\ ~Constant(x)) =>
        /\ ~result.raised
        /\ result.value.correlation = Float(Scale)
        /\ Len(x) >= 3 => result.value.p_value = Float(0)
        /\ Len(x) = 2 => result.value.p_value = Float(Scale)

\* A three-element sequence that is not constant was correlated with itself.
SelfCorrelatedThree ==
    /\ call = "pairCorrelator"
    /\ x = y
    /\ Len(x) = 3
    /\ ~Constant(x)
    /\ result.value.p_value = Float(0)

\* The five per-variable results of a returned analysis.
Variables == <<"temperature", "precipitation", "humidity", "wind_speed", "pressure">>

Coefficient(analysis, i) ==
    CASE i = 1 -> analysis.temperature_correlation
      [] i = 2 -> analysis.precipitation_correlation
      [] i = 3 -> analysis.humidity_correlation
      [] i = 4 -> analysis.wind_speed_correlation
      [] i = 5 -> analysis.pressure_correlation

PValueOf(analysis, i) ==
    CASE i = 1 -> analysis.temperature_p_value
      [] i = 2 -> analysis.precipitation_p_value
      [] i = 3 -> analysis.humidity_p_value
      [] i = 4 -> analysis.wind_speed_p_value
      [] i = 5 -> analysis.pressure_p_value

StrengthOf(analysis, i) ==
    CASE i = 1 -> analysis.temperature_strength
      [] i = 2 -> analysis.precipitation_strength
      [] i = 3 -> analysis.humidity_strength
      [] i = 4 -> analysis.wind_speed_strength
      [] i = 5 -> analysis.pressure_strength

\* A float is a number between lo/Scale and hi/Scale.
Within(f, lo, hi) == ~f.nan /\ lo <= f.v /\ f.v <= hi

\* C12: in every analysis returned, each of the five coefficients is a
\* number in [-1, 1], each p-value a number in [0, 1] and each strength one
\* of weak, moderate, strong; none is not-a-number.
AnalysisResultsInRange ==
    (call = "analyze" /\ ~result.raised) =>
        \A i \in 1..Len(Variables) :
            /\ Within(Coefficient(result.value, i), -Scale, Scale)
            /\ Within(PValueOf(result.value, i), 0, Scale)
            /\ StrengthOf(result.value, i) \in {"weak", "moderate", "strong"}

\* The columns of the aligned sample an analysis correlates.
AlignedColumn(name) ==
    LET aligned == align_weather_stock_data(weather_data, stock_data, left_order).value
    IN  IF name \in {"close_price", "percentage_change", "volume"}
        THEN Column(aligned.stock_aligned, name)
        ELSE Column(aligned.weather_aligned, name)

WeatherVariables == <<"temperature_avg", "precipitation", "humidity", "wind_speed", "pressure">>

\* C13: when exactly one weather variable is constant over an aligned sample
\* of two or more rows and neither the others nor the close price are, the
\* analysis returns, reports that variable with (0.0, 1.0, weak), and the
\* other coefficients, overall_correlation, r_squared and both bounds of
\* confidence_interval are numbers.
AnalysisDegenerateVariableDefault ==
    call = "analyze" =>
        \A d \in 1..Len(WeatherVariables) :
            ( /\ ~align_weather_stock_data(weather_data, stock_data, left_order).raised
              /\ Len(AlignedColumn("close_price")) >= 2
              /\ ~Constant(AlignedColumn("close_price"))
              /\ \A i \in 1..Len(WeatherVariables) :
                     Constant(AlignedColumn(WeatherVariables[i])) <=> i = d )
            => /\ ~result.raised
               /\ Coefficient(result.value, d) = Float(0)
               /\ PValueOf(result.value, d) = Float(Scale)
               /\ StrengthOf(result.value, d) = "weak"
               /\ \A i \in 1..Len(WeatherVariables) : ~Coefficient(result.value, i).nan
               /\ ~result.value.overall_correlation.nan
               /\ ~result.value.r_squared.nan
               /\ ~result.value.confidence_interval[1].nan
               /\ ~result.value.confidence_interval[2].nan

\* C14: the confidence-interval estimator returns exactly [0.0, 0.0] for
\* every sample size below 3, whatever the coefficient and the confidence.
IntervalSmallSampleZero ==
    (call = "confidenceInterval" /\ sample_size < 3) =>
        result = Returned(<<Float(0), Float(0)>>)

\* The estimator was called with two observations, the singular coefficient
\* 1.0 as a numpy float and a confidence other than the default.
IntervalOfTwoObservations ==
    /\ call = "confidenceInterval"
    /\ sample_size = 2
    /\ correlation_coefficient = Float(Scale)
    /\ np_float
    /\ confidence # DefaultConfidence
    /\ result = Returned(<<Float(0), Float(0)>>)

\* C15: the confidence-interval estimator never raises, and for three or
\* more observations every singular input (coefficient 1 or -1, or exactly
\* three observations) gives exactly [0.0, 0.0].
IntervalSingularZero ==
    call = "confidenceInterval" =>
        /\ ~result.raised
        /\ ( /\ sample_size >= 3
              /\ ~correlation_coefficient.nan
              /\ (Abs(correlation_coefficient.v) = Scale \/ sample_size = 3) )
           => result.value = <<Float(0), Float(0)>>

\* C16: for a coefficient strictly between -1 and 1, more than three
\* observations and the default confidence, the estimator returns two
\* numbers lower < r < upper, both within [-1, 1].
IntervalBracketsCoefficient ==
    ( /\ call = "confidenceInterval"
      /\ ~correlation_coefficient.nan
      /\ Abs(correlation_coefficient.v) < Scale
      /\ sample_size > 3
      /\ confidence = DefaultConfidence )
    => LET r == correlation_coefficient.v
           lower == result.value[1]
           upper == result.value[2]
       IN  /\ ~result.raised
           /\ Len(result.value) = 2
           /\ Within(lower, -Scale, r - 1)
           /\ Within(upper, r + 1, Scale)

\* The interval of r = 0.5 over 30 observations was estimated.
IntervalOfHalfOverThirty ==
    /\ call = "confidenceInterval"
    /\ 2 * correlation_coefficient.v = Scale
    /\ ~correlation_coefficient.nan
    /\ sample_size = 30
    /\ confidence = DefaultConfidence
    /\ result.value[1].v < correlation_coefficient.v
    /\ result.value[2].v > correlation_coefficient.v

\* C17: in every analysis returned, overall_correlation is the mean of the
\* absolute values of the five coefficients and a number in [0, 1], and
\* r_squared is its square.
OverallIsMeanOfMagnitudes ==
    (call = "analyze" /\ ~result.raised) =>
        LET overall == result.value.overall_correlation
            total == SumSeq([i \in 1..Len(Variables) |-> Abs(Coefficient(result.value, i).v)])
        IN  /\ \A i \in 1..Len(Variables) : ~Coefficient(result.value, i).nan
            /\ Within(overall, 0, Scale)
            /\ overall.v = total \div Len(Variables)
            /\ result.value.r_squared = Float((overall.v * overall.v) \div Scale)

\* C18: in every analysis returned, sample_size is the number of rows of
\* the aligned sample, which is the number of distinct dates the two lists
\* share, and confidence_interval is the estimate for that sample size.
SampleSizeIsSharedDates ==
    (call = "analyze" /\ ~result.raised) =>
        LET aligned == align_weather_stock_data(weather_data, stock_data, left_order).value
        IN  /\ result.value.sample_size = Len(aligned.weather_aligned.rows)
            /\ result.value.sample_size = Cardinality(Dates(weather_data) \cap Dates(stock_data))
            /\ result.value.confidence_interval =
                   calculate_confidence_interval(result.value.overall_correlation,
                                                 result.value.sample_size, DefaultConfidence, TRUE)

\* C19: a matrix that is not empty lists the eight variables in the fixed
\* order, and matrix and p_values have eight rows of eight entries, entry
\* (i, j) being the coefficient of the columns variables[i], variables[j].
MatrixSquareOverEight ==
    (call = "buildMatrix" /\ ~result.raised /\ result.value # EmptyMatrix) =>
        LET m == result.value
        IN  /\ m.variables = <<"temperature_avg", "precipitation", "humidity", "wind_speed",
                                "pressure", "close_price", "percentage_change", "volume">>
            /\ Len(m.matrix) = 8
            /\ Len(m.p_values) = 8
            /\ \A i \in 1..8 : Len(m.matrix[i]) = 8 /\ Len(m.p_values[i]) = 8
            /\ \A i, j \in 1..8 :
                   m.matrix[i][j] = corr(AlignedColumn(m.variables[i]), AlignedColumn(m.variables[j]))

\* The matrix of a sample of three rows was built.
MatrixOfThreeRows ==
    /\ call = "buildMatrix"
    /\ ~result.raised
    /\ Len(result.value.variables) = 8
    /\ Len(AlignedColumn("close_price")) = 3

EventsAtMostTenDescending ==
    call = "detectEvents" =>
        /\ ~result.raised
        /\ Len(result.value) <= 10
        /\ \A i, j \in 1..Len(result.value) :
               i < j => result.value[i].correlation_impact >= result.value[j].correlation_impact

\* More than ten observations qualified, of different correlation_impact,
\* the largest one met last.
EventsTruncated ==
    /\ call = "detectEvents"
    /\ Len(weather_data) > 10
    /\ Len(result.value) = 10
    /\ weather_data[1] = WeatherData(1, 0)
    /\ weather_data[Len(weather_data)] = WeatherData(3, 12)

\* The observations of the weather list that are extreme and have a stock
\* observation of their calendar date, as indices in input order.  The
\* conditions are written out here, not taken from the detector.
IsExtreme(weather) ==
    \/ weather.temperature_avg > 35
    \/ weather.temperature_avg < -10
    \/ weather.precipitation > 50
    \/ weather.wind_speed > 20

Qualifies(i) ==
    /\ IsExtreme(weather_data[i])
    /\ DateOf(weather_data[i].date) \in Dates(stock_data)

Qualifying == {i \in 1..Len(weather_data) : Qualifies(i)}

\* The number of qualifying observations up to index i.
QualifyingUpTo(i) == Cardinality({j \in Qualifying : j <= i})

\* The percentage_change of the stock observation an event of observation i
\* reports: that of a stock observation of the same calendar date.
ChangesOn(i) ==
    {stock_data[k].percentage_change :
        k \in {k \in 1..Len(stock_data) :
                  DateOf(stock_data[k].date) = DateOf(weather_data[i].date)}}

\* The position of qualifying observation i in a stable descending sort:
\* after the events of larger impact and after the earlier events of the
\* same impact.
Impact(i) == Abs(StockDict(stock_data, DateOf(weather_data[i].date)).percentage_change)

Rank(i) ==
    1 + Cardinality({j \in Qualifying : Impact(j) > Impact(i)})
      + Cardinality({j \in Qualifying : Impact(j) = Impact(i) /\ j < i})

\* C22: detectEvents produces an event for an observation exactly when the
\* observation is extreme and a stock observation of its calendar date
\* exists (while no more than ten qualify, one event per qualifying
\* observation and no other event); market_impact is that stock day's
\* percentage_change and correlation_impact its absolute value.
EventIffExtremeAndMatched ==
    (call = "detectEvents" /\ ~result.raised /\ Cardinality(Qualifying) <= 10) =>
        /\ Len(result.value) = Cardinality(Qualifying)
        /\ \A i \in Qualifying :
               \E k \in 1..Len(result.value) :
                   /\ result.value[k].date = weather_data[i].date
                   /\ result.value[k].city = weather_data[i].city
                   /\ result.value[k].market_impact \in ChangesOn(i)
                   /\ result.value[k].correlation_impact = Abs(result.value[k].market_impact)
        /\ \A k \in 1..Len(result.value) :
               \E i \in Qualifying :
                   /\ result.value[k].date = weather_data[i].date
                   /\ result.value[k].market_impact \in ChangesOn(i)
                   /\ result.value[k].correlation_impact = Abs(result.value[k].market_impact)

\* A list with an extreme matched observation (negative change), and an
\* extreme observation without a stock observation of its date, gave one
\* event.
EventOnlyForMatched ==
    /\ call = "detectEvents"
    /\ Len(result.value) = 1
    /\ result.value[1].market_impact < 0
    /\ result.value[1].correlation_impact = -result.value[1].market_impact
    /\ \E i \in 1..Len(weather_data) :
           IsExtreme(weather_data[i]) /\ DateOf(weather_data[i].date) \notin Dates(stock_data)

\* C24: each observation is classified by the first condition that holds,
\* in the order temperature_avg > 35 (extreme_heat), temperature_avg < -10
\* (extreme_cold), precipitation > 50 (heavy_rain), wind_speed > 20
\* (high_winds), all strict: an observation exactly on the thresholds gets
\* no event, every other one exactly one event of the earliest type.
EventTypeFirstMatch ==
    (call = "detectEvents" /\ ~result.raised /\ Cardinality(Qualifying) <= 10
       /\ \A i, j \in Qualifying : Impact(i) = Impact(j)) =>
        /\ Len(result.value) = Cardinality(Qualifying)
        /\ \A i \in Qualifying :
               LET w == weather_data[i]
                   type == result.value[QualifyingUpTo(i)].event_type
                   mild == w.temperature_avg <= 35 /\ w.temperature_avg >= -10
               IN  /\ type \in {"extreme_heat", "extreme_cold", "heavy_rain", "high_winds"}
                   /\ (type = "extreme_heat") <=> w.temperature_avg > 35
                   /\ (type = "extreme_cold") <=> w.temperature_avg < -10
                   /\ (type = "heavy_rain") <=> (mild /\ w.precipitation > 50)
                   /\ (type = "high_winds") <=>
                          (mild /\ w.precipitation <= 50 /\ w.wind_speed > 20)

\* A hot, wet and windy observation gave one extreme_heat event, and an
\* observation exactly on the three thresholds gave none.
HotWindyTaggedHeat ==
    /\ call = "detectEvents"
    /\ weather_data = <<ThresholdWeather(36, 51, 21), ThresholdWeather(35, 50, 20)>>
    /\ Len(result.value) = 1
    /\ result.value[1].event_type = "extreme_heat"

\* C25: the list detectEvents returns is the first ten of a stable
\* descending sort of the events: the event of a qualifying observation
\* stands after the events of larger correlation_impact and after the
\* events of equal correlation_impact met earlier in the weather list, and
\* an event left out has no larger correlation_impact than a returned one.
EventsStableTopTen ==
    (call = "detectEvents" /\ ~result.raised) =>
        /\ Len(result.value) = Min(10, Cardinality(Qualifying))
        /\ \A i \in Qualifying :
               IF Rank(i) <= 10
               THEN /\ result.value[Rank(i)].date = weather_data[i].date
                    /\ result.value[Rank(i)].correlation_impact = Impact(i)
               ELSE \A k \in 1..Len(result.value) :
                        result.value[k].correlation_impact >= Impact(i)

\* Eleven events qualified; an event of the smaller impact met first was
\* kept in front of its ties while the last of them was left out.
EventsTieLeftOut ==
    /\ call = "detectEvents"
    /\ Cardinality(Qualifying) = 11
    /\ Len(result.value) = 10
    /\ weather_data[1] = WeatherData(2, 12)
    /\ weather_data[2] = WeatherData(3, 12)
    /\ weather_data[3] = WeatherData(1, 0)
    /\ weather_data[11] = WeatherData(1, 0)
    /\ result.value[1].date = weather_data[2].date
    /\ result.value[10].correlation_impact = Impact(11)

\* A sequence rises by the same positive step from each element to the next.
LinearlyIncreasing(s) ==
    /\ Len(s) >= 2
    /\ s[2] > s[1]
    /\ \A i \in 1..(Len(s) - 1) : s[i + 1] - s[i] = s[2] - s[1]

\* C26: in every analysis returned, the coefficient and p-value of each of
\* the five weather variables are the pair correlator's result for the
\* variable's aligned column and the aligned close_price column, and the
\* strength is the classifier's result for that coefficient; when the
\* aligned temperature_avg and close_price both rise linearly over n >= 3
\* shared dates, temperature_correlation is 1.0, temperature_strength is
\* strong and sample_size is n.
AnalysisFromPairCorrelator ==
    (call = "analyze" /\ ~result.raised) =>
        /\ \A i \in 1..Len(WeatherVariables) :
               LET pair == calculate_correlation_with_p_value(AlignedColumn(WeatherVariables[i]),
                                                              AlignedColumn("close_price"))
               IN  /\ Coefficient(result.value, i) = pair.correlation
                   /\ PValueOf(result.value, i) = pair.p_value
                   /\ StrengthOf(result.value, i) = calculate_correlation_strength(pair.correlation)
        /\ ( /\ Len(AlignedColumn("close_price")) >= 3
              /\ LinearlyIncreasing(AlignedColumn("temperature_avg"))
              /\ LinearlyIncreasing(AlignedColumn("close_price")) )
           => /\ result.value.temperature_correlation = Float(Scale)
              /\ result.value.temperature_strength = "strong"
              /\ result.value.sample_size = Cardinality(Dates(weather_data) \cap Dates(stock_data))

\* Temperature and close price that both rise linearly over three shared
\* dates were analysed.
AnalysedLinearSeries ==
    /\ call = "analyze"
    /\ ~result.raised
    /\ Len(AlignedColumn("close_price")) = 3
    /\ LinearlyIncreasing(AlignedColumn("temperature_avg"))
    /\ LinearlyIncreasing(AlignedColumn("close_price"))
    /\ result.value.temperature_correlation = Float(Scale)
    /\ result.value.sample_size = 3

\* C27: in every matrix that is not empty, each of the eight diagonal
\* coefficients is 1.0, also for a sample of one row or with a constant
\* column.
MatrixDiagonalOne ==
    (call = "buildMatrix" /\ ~result.raised /\ result.value # EmptyMatrix) =>
        \A i \in 1..Len(result.value.variables) : result.value.matrix[i][i] = Float(Scale)

\* C28: in every matrix returned, each off-diagonal coefficient and
\* p-value are the pair correlator's result for the two columns, the
\* samples on which the pair correlator falls back to (0.0, 1.0) included.
MatrixAgreesWithPairCorrelator ==
    (call = "buildMatrix" /\ ~result.raised) =>
        \A i, j \in 1..Len(result.value.variables) :
            i # j =>
                LET pair == calculate_correlation_with_p_value(
                                AlignedColumn(result.value.variables[i]),
                                AlignedColumn(result.value.variables[j]))
                IN  /\ result.value.matrix[i][j] = pair.correlation
                    /\ result.value.p_values[i][j] = pair.p_value

\* C29: the correlation service never raises; when a fetched list is empty
\* or the two lists share no date the response has success = False, an
\* error that is not empty and no analysis; a response with success = True
\* carries analysis, matrix and events.
ServiceNeverRaises ==
    call = "analyzeCorrelation" =>
        /\ ~result.raised
        /\ (weather_data = <<>> \/ stock_data = <<>>
              \/ Dates(weather_data) \cap Dates(stock_data) = {}) =>
               ~result.value.success
        /\ ~result.value.success =>
               /\ result.value.error.some
               /\ result.value.error.v # ""
               /\ ~result.value.analysis.some
        /\ result.value.success =>
               /\ result.value.analysis.some
               /\ result.value.matrix.some
               /\ result.value.events.some

\* The service was called with two lists that are not empty and share no
\* date, and answered with the message of the analysis' error.
ServiceAnsweredNoOverlap ==
    /\ call = "analyzeCorrelation"
    /\ weather_data # <<>>
    /\ stock_data # <<>>
    /\ Dates(weather_data) \cap Dates(stock_data) = {}
    /\ ~result.raised
    /\ ~result.value.success
    /\ result.value.error = Some("No overlapping data found for correlation analysis")

InvocationsIndependent ==
    call = "concurrent" =>
        \A i \in 1..MaxInvocations :
            /\ invocations[i].state # "idle" =>
                   /\ invocations[i].weather = weather_data
                   /\ invocations[i].stock = stock_data
            /\ invocations[i].state = "done" =>
                   invocations[i].result =
                       Apply(invocations[i].operation, invocations[i].weather,
                             invocations[i].stock, left_order)

\* An align and a detectEvents handed the same three-day lists both
\* finished.
InvocationsOverlapped ==
    /\ call = "concurrent"
    /\ Len(weather_data) = 3
    /\ invocations[1].state = "done"
    /\ invocations[1].operation = "align"
    /\ invocations[2].state = "done"
    /\ invocations[2].operation = "detectEvents"
    /\ Len(invocations[2].result.value) >= 1

====
